---------------------------- MODULE Spec2Model ----------------------------
(***************************************************************************)
(* docker/kratos/substitute.py: read a template file, replace the four     *)
(* ${KRATOS_...} placeholders by values taken from the process             *)
(* environment, write the result to an output file, print a confirmation.  *)
(*                                                                         *)
(* Text is a sequence of one-character strings, so that str.replace, the   *)
(* text-mode newline translation and the placeholder spelling are modelled *)
(* character by character.                                                 *)
(***************************************************************************)
EXTENDS Integers, Sequences, FiniteSets, TLC

VARIABLES
    argv,           \* sys.argv[1:], the positional arguments (paths)
    environ,        \* os.environ restricted to the four names: a function on the names that are set
    fs,             \* the file system: a function from the paths that exist to their content
    perm,           \* access the process has to each path: "rw", "r" or "-"
    disk_free,      \* characters the device still accepts (Unlimited: no limit)
    pc,             \* position in the script
    template_file,  \* line 5
    output_file,    \* line 6
    vars_to_sub,    \* lines 8-13
    content,        \* lines 16 and 20
    idx,            \* position of the for loop of line 18 in vars_to_sub (1..4)
    stdout,         \* lines printed so far
    error,          \* the exception that ended the run ("" while none)
    fs_before       \* history: the file system when the run started

vars == <<argv, environ, fs, perm, disk_free, pc, template_file, output_file,
          vars_to_sub, content, idx, stdout, error, fs_before>>

----------------------------------------------------------------------------
(* Bounds of the model *)

\* a template of the string cases is made of at most this many pieces
MaxPieces == 2
\* at most this many of the four variables are set in the environment
MaxEnvSet == 1
\* at most this many positional arguments
MaxArgs == 2
\* a limited device accepts 0..MaxDisk characters
MaxDisk == 1

----------------------------------------------------------------------------
(* The names and the placeholder spelling, lines 8-13 and 19 *)

KRATOS == <<"K","R","A","T","O","S","_">>

\* the keys of vars_to_sub in declaration (= dict iteration) order
VarOrder ==
    << "KRATOS_DSN", "KRATOS_CIPHER_SECRET", "KRATOS_COOKIE_SECRET",
       "KRATOS_SMTP_CONNECTION_URI" >>

VarNames == { VarOrder[k] : k \in 1..Len(VarOrder) }

\* the characters of a key
Chars(var_name) ==
    CASE var_name = "KRATOS_DSN" -> KRATOS \o <<"D","S","N">>
      [] var_name = "KRATOS_CIPHER_SECRET" ->
            KRATOS \o <<"C","I","P","H","E","R","_","S","E","C","R","E","T">>
      [] var_name = "KRATOS_COOKIE_SECRET" ->
            KRATOS \o <<"C","O","O","K","I","E","_","S","E","C","R","E","T">>
      [] var_name = "KRATOS_SMTP_CONNECTION_URI" ->
            KRATOS \o <<"S","M","T","P","_","C","O","N","N","E","C","T","I","O","N",
                        "_","U","R","I">>

\* mutant: the closing brace is forgotten
PlaceholderOpen(var_name) == <<"$","{">> \o Chars(var_name)

\* line 19: placeholder = '${' + var_name + '}'
Placeholder(var_name) == <<"$","{">> \o Chars(var_name) \o <<"}">>

----------------------------------------------------------------------------
(* str.replace, line 20 *)

\* whether old occurs in s at position i
MatchAt(s, old, i) ==
    /\ i + Len(old) - 1 <= Len(s)
    /\ \A k \in 1..Len(old) : s[i + k - 1] = old[k]

\* the first position from i on at which old occurs in s, 0 when there is none
\* (str.find)
Find(s, old, i) ==
    LET occ == { j \in i..Len(s) : MatchAt(s, old, j) }
    IN  IF occ = {} THEN 0 ELSE CHOOSE p \in occ : \A q \in occ : p <= q

RECURSIVE ReplaceFrom(_, _, _, _)
\* s[i..] with the leftmost non-overlapping occurrences of old replaced by
\* new: find the next occurrence, copy what precedes it, go on after it
ReplaceFrom(s, old, new, i) ==
    LET p == Find(s, old, i)
    IN  IF p = 0 THEN SubSeq(s, i, Len(s))
        ELSE SubSeq(s, i, p - 1) \o new \o ReplaceFrom(s, old, new, p + Len(old))

\* mutant: s.replace(old, new, 1), only the first occurrence
StrReplaceFirst(s, old, new) ==
    LET occ == { i \in 1..Len(s) : MatchAt(s, old, i) }
    IN  IF occ = {} THEN s
        ELSE LET p == CHOOSE q \in occ : \A r \in occ : q <= r
             IN  SubSeq(s, 1, p - 1) \o new \o SubSeq(s, p + Len(old), Len(s))

\* s.replace(old, new) for a non-empty old
StrReplace(s, old, new) == ReplaceFrom(s, old, new, 1)

----------------------------------------------------------------------------
(* Text-mode file I/O, lines 15-16 and 22-23 *)

\* universal newlines (newline=None on read): "\r\n" and then every "\r"
\* that is left are turned into "\n"
UniversalNewlines(data) ==
    StrReplace(StrReplace(data, <<"\r", "\n">>, <<"\n">>), <<"\r">>, <<"\n">>)

\* what f.read() returns for a file opened with open(path, 'r')
ReadText(data) == UniversalNewlines(data)

\* os.linesep of the platform the script runs on (POSIX)
LineSep == <<"\n">>

\* what f.write(text) stores in a file opened with open(path, 'w')
\* (newline=None on write): every "\n" is written as os.linesep
WriteText(text) ==
    IF LineSep = <<"\n">> THEN text ELSE StrReplace(text, <<"\n">>, LineSep)

Exists(path) == path \in DOMAIN fs
CanRead(path) == perm[path] # "-"
CanWrite(path) == perm[path] = "rw"

\* the marker of a device without a limit
Unlimited == -1

Fits(data) == disk_free = Unlimited \/ Len(data) <= disk_free

\* the file system with path holding data (created when absent)
Store(path, data) ==
    [q \in DOMAIN fs \cup {path} |-> IF q = path THEN data ELSE fs[q]]

\* os.environ.get(var_name, default)
EnvironGet(var_name, default) ==
    IF var_name \in DOMAIN environ THEN environ[var_name] ELSE default

\* line 25
ConfirmationLine ==
    [text |-> "Substituted variables in", src |-> template_file, dst |-> output_file]

----------------------------------------------------------------------------
(* Inputs *)

Paths == {"kratos.tmpl", "kratos.yml"}

\* a value no path, used before lines 5-6 assign
NoPath == ""

\* placeholders the table of lines 8-13 does not hold: a foreign name, and a
\* name that starts like a known one
Unknown == <<"$","{","U","N","K","N","O","W","N","_","V","A","R","}">>
NearMiss == <<"$","{">> \o KRATOS \o <<"D","S","N","_","U","R","L","}">>

UnknownTokens == { Unknown, NearMiss }

\* the pieces templates are built from: the four placeholders, a placeholder
\* the table does not know, line ends, and the tail of a placeholder
Pieces ==
    { Placeholder(v) : v \in VarNames }
        \cup { Unknown, NearMiss, <<"\r">>, <<"\n">>, <<"_","S","E","C","R","E","T","}">> }

RECURSIVE TemplatesUpTo(_)
TemplatesUpTo(n) ==
    IF n = 0 THEN { <<>> }
    ELSE LET shorter == TemplatesUpTo(n - 1)
         IN  shorter \cup { t \o p : t \in shorter, p \in Pieces }

\* the values a variable is set to: plain text that is the head of a
\* placeholder, and text that is a whole placeholder
EnvValues ==
    { <<"$","{">> \o KRATOS \o <<"C","I","P","H","E","R">>,
      Placeholder("KRATOS_CIPHER_SECRET") }

EnvsUpTo(n) ==
    UNION { [S -> EnvValues] : S \in { X \in SUBSET VarNames : Cardinality(X) <= n } }

\* the example of the specification's section 8
ExampleTemplate ==
    <<"D","S","N","=">> \o Placeholder("KRATOS_DSN") \o <<"\n">>
        \o <<"S","E","C","R","E","T","=">> \o Placeholder("KRATOS_CIPHER_SECRET")
        \o <<"\n">>

ExampleEnviron ==
    [v \in {"KRATOS_DSN"} |->
        <<"p","o","s","t","g","r","e","s",":","/","/","x">>]

ArgLists == UNION { [1..n -> Paths] : n \in 0..MaxArgs }

OldOutput == <<"o","l","d","\n">>

\* the file systems of the file-system cases: the template may be missing,
\* the output may exist already
FileSystems ==
    { f \in UNION { [S -> {ExampleTemplate, OldOutput}] : S \in SUBSET Paths } :
        /\ "kratos.tmpl" \in DOMAIN f => f["kratos.tmpl"] = ExampleTemplate
        /\ "kratos.yml" \in DOMAIN f => f["kratos.yml"] = OldOutput }

----------------------------------------------------------------------------
(* The script *)

Start ==
    /\ pc = "argv1"
    /\ template_file = NoPath
    /\ output_file = NoPath
    /\ vars_to_sub = [v \in VarNames |-> <<>>]
    /\ content = <<>>
    /\ idx = 1
    /\ stdout = <<>>
    /\ error = ""
    /\ fs_before = fs

\* the string cases: every template and environment, files in order
InitStrings ==
    /\ argv = <<"kratos.tmpl", "kratos.yml">>
    /\ environ \in EnvsUpTo(MaxEnvSet)
    /\ \E t \in TemplatesUpTo(MaxPieces) : fs = [p \in {"kratos.tmpl"} |-> t]
    /\ perm = [p \in Paths |-> "rw"]
    /\ disk_free = Unlimited

\* the file-system cases: every argument list, file system, permission and device
InitFiles ==
    /\ argv \in ArgLists
    /\ environ \in {ExampleEnviron}
    /\ fs \in FileSystems
    /\ perm \in [Paths -> {"rw", "r", "-"}]
    /\ disk_free \in {Unlimited} \cup 0..MaxDisk

Init == (InitStrings \/ InitFiles) /\ Start

Fail(exception) ==
    /\ pc' = "failed"
    /\ error' = exception

\* line 5: template_file = sys.argv[1]
GetTemplateArg ==
    /\ pc = "argv1"
    /\ IF Len(argv) >= 1
       THEN /\ template_file' = argv[1]
            /\ pc' = "argv2"
            /\ UNCHANGED error
       ELSE /\ Fail("IndexError")
            /\ UNCHANGED template_file
    /\ UNCHANGED <<argv, environ, fs, perm, disk_free, output_file, vars_to_sub,
                   content, idx, stdout, fs_before>>

\* mutant: the index is wrong, output_file = sys.argv[1]
GetOutputArgSlip ==
    /\ pc = "argv2"
    /\ output_file' = argv[1]
    /\ pc' = "environ"
    /\ UNCHANGED <<argv, environ, fs, perm, disk_free, template_file, vars_to_sub,
                   content, idx, stdout, error, fs_before>>

\* line 6: output_file = sys.argv[2]
GetOutputArg ==
    /\ pc = "argv2"
    /\ IF Len(argv) >= 2
       THEN /\ output_file' = argv[2]
            /\ pc' = "environ"
            /\ UNCHANGED error
       ELSE /\ Fail("IndexError")
            /\ UNCHANGED output_file
    /\ UNCHANGED <<argv, environ, fs, perm, disk_free, template_file, vars_to_sub,
                   content, idx, stdout, fs_before>>

\* mutant: os.environ[name], which raises KeyError for a name that is not set
BuildVarsStrict ==
    /\ pc = "environ"
    /\ IF VarNames \subseteq DOMAIN environ
       THEN /\ vars_to_sub' = [v \in VarNames |-> environ[v]]
            /\ pc' = "read"
            /\ UNCHANGED error
       ELSE /\ Fail("KeyError")
            /\ UNCHANGED vars_to_sub
    /\ UNCHANGED <<argv, environ, fs, perm, disk_free, template_file, output_file,
                   content, idx, stdout, fs_before>>

\* lines 8-13: vars_to_sub = {name: os.environ.get(name, ''), ...}
BuildVars ==
    /\ pc = "environ"
    /\ vars_to_sub' = [v \in VarNames |-> EnvironGet(v, <<>>)]
    /\ pc' = "read"
    /\ UNCHANGED <<argv, environ, fs, perm, disk_free, template_file, output_file,
                   content, idx, stdout, error, fs_before>>

\* mutant: the output is opened for writing before the template is read
\* (with open(output_file, 'w') as out, open(template_file, 'r') as f: ...)
ReadTemplateAfterOpen ==
    /\ pc = "read"
    /\ IF CanWrite(output_file)
       THEN /\ fs' = Store(output_file, <<>>)
            /\ IF template_file \in DOMAIN fs' /\ CanRead(template_file)
               THEN /\ content' = ReadText(fs'[template_file])
                    /\ pc' = "loop"
                    /\ UNCHANGED error
               ELSE /\ Fail("OSError")
                    /\ UNCHANGED content
       ELSE /\ Fail("OSError")
            /\ UNCHANGED <<fs, content>>
    /\ UNCHANGED <<argv, environ, perm, disk_free, template_file, output_file,
                   vars_to_sub, idx, stdout, fs_before>>

\* lines 15-16: with open(template_file, 'r') as f: content = f.read()
ReadTemplate ==
    /\ pc = "read"
    /\ IF Exists(template_file) /\ CanRead(template_file)
       THEN /\ content' = ReadText(fs[template_file])
            /\ pc' = "loop"
            /\ UNCHANGED error
       ELSE /\ Fail("OSError")
            /\ UNCHANGED content
    /\ UNCHANGED <<argv, environ, fs, perm, disk_free, template_file, output_file,
                   vars_to_sub, idx, stdout, fs_before>>

\* lines 18-20, one iteration of the loop (the last one leaves the loop)
ReplaceStep ==
    /\ pc = "loop"
    /\ content' = StrReplace(content, Placeholder(VarOrder[idx]),
                             vars_to_sub[VarOrder[idx]])
    /\ IF idx < Len(VarOrder)
       THEN idx' = idx + 1 /\ pc' = "loop"
       ELSE idx' = idx /\ pc' = "open"
    /\ UNCHANGED <<argv, environ, fs, perm, disk_free, template_file, output_file,
                   vars_to_sub, stdout, error, fs_before>>

\* mutant: open(output_file, 'a'), which keeps what the file holds
OpenOutputAppend ==
    /\ pc = "open"
    /\ IF CanWrite(output_file)
       THEN /\ fs' = Store(output_file,
                           IF Exists(output_file) THEN fs[output_file] ELSE <<>>)
            /\ pc' = "write"
            /\ UNCHANGED error
       ELSE /\ Fail("OSError")
            /\ UNCHANGED fs
    /\ UNCHANGED <<argv, environ, perm, disk_free, template_file, output_file,
                   vars_to_sub, content, idx, stdout, fs_before>>

\* line 22: open(output_file, 'w') creates the file or truncates it
OpenOutput ==
    /\ pc = "open"
    /\ IF CanWrite(output_file)
       THEN /\ fs' = Store(output_file, <<>>)
            /\ pc' = "write"
            /\ UNCHANGED error
       ELSE /\ Fail("OSError")
            /\ UNCHANGED fs
    /\ UNCHANGED <<argv, environ, perm, disk_free, template_file, output_file,
                   vars_to_sub, content, idx, stdout, fs_before>>

\* mutant: the failure of the write is swallowed (try: ... except OSError: pass)
WriteOutputSwallow ==
    /\ pc = "write"
    /\ LET data == WriteText(content)
       IN  IF Fits(data)
           THEN fs' = Store(output_file, fs[output_file] \o data)
           ELSE fs' = Store(output_file, fs[output_file] \o SubSeq(data, 1, disk_free))
    /\ pc' = "print"
    /\ UNCHANGED <<argv, environ, perm, disk_free, template_file, output_file,
                   vars_to_sub, content, idx, stdout, error, fs_before>>

\* line 23 and the end of the with block: f.write(content), flush, close.
\* The text goes after what the open left in the file.  A device that is
\* full takes the characters it has room for and the write raises.
WriteOutput ==
    /\ pc = "write"
    /\ LET data == WriteText(content)
       IN  IF Fits(data)
           THEN /\ fs' = Store(output_file, fs[output_file] \o data)
                /\ pc' = "print"
                /\ UNCHANGED error
           ELSE /\ fs' = Store(output_file,
                               fs[output_file] \o SubSeq(data, 1, disk_free))
                /\ Fail("OSError")
    /\ UNCHANGED <<argv, environ, perm, disk_free, template_file, output_file,
                   vars_to_sub, content, idx, stdout, fs_before>>

\* line 25: print(f'Substituted variables in {template_file} -> {output_file}')
PrintConfirmation ==
    /\ pc = "print"
    /\ stdout' = Append(stdout, ConfirmationLine)
    /\ pc' = "done"
    /\ UNCHANGED <<argv, environ, fs, perm, disk_free, template_file, output_file,
                   vars_to_sub, content, idx, error, fs_before>>

Next ==
    \/ GetTemplateArg
    \/ GetOutputArg
    \/ BuildVars
    \/ ReadTemplate
    \/ ReplaceStep
    \/ OpenOutput
    \/ WriteOutput
    \/ PrintConfirmation

Spec == Init /\ [][Next]_vars

----------------------------------------------------------------------------
(* Vocabulary of the properties *)

\* the positions at which old occurs in s
Occurrences(s, old) == { i \in 1..Len(s) : MatchAt(s, old, i) }

Count(s, old) == Cardinality(Occurrences(s, old))

\* the bytes of the template file when the run started, and the text read from them
TemplateData == fs_before[template_file]
TemplateText == ReadText(TemplateData)

\* the run has read the template
HasRead == pc \in {"loop", "open", "write", "print", "done"}

\* the loop of lines 18-20 has finished
LoopDone == pc \in {"open", "write", "print", "done"}

RECURSIVE SimultaneousFrom(_, _, _)
\* one left-to-right pass over s[i..] that replaces every placeholder of the
\* table found in s itself; what it inserts is not looked at again
SimultaneousFrom(s, table, i) ==
    IF i > Len(s) THEN <<>>
    ELSE IF \E v \in VarNames : MatchAt(s, Placeholder(v), i)
         THEN LET v == CHOOSE w \in VarNames : MatchAt(s, Placeholder(w), i)
              IN  table[v] \o SimultaneousFrom(s, table, i + Len(Placeholder(v)))
         ELSE <<s[i]>> \o SimultaneousFrom(s, table, i + 1)

Simultaneous(s, table) == SimultaneousFrom(s, table, 1)

RECURSIVE InOrderFrom(_, _, _, _)
\* the replacements of the names order[k..], one after the other
InOrderFrom(s, table, order, k) ==
    IF k > Len(order) THEN s
    ELSE InOrderFrom(StrReplace(s, Placeholder(order[k]), table[order[k]]),
                     table, order, k + 1)

InOrder(s, table, order) == InOrderFrom(s, table, order, 1)

\* the orders in which the four replacements can be applied
Orders ==
    { o \in [1..Len(VarOrder) -> VarNames] : \A v \in VarNames : \E k \in DOMAIN o : o[k] = v }

\* after is before with every occurrence of old replaced by new and every
\* other character kept, stated position by position (occurrences of a
\* placeholder cannot overlap: "$" is its first character only)
ReplacedAll(before, after, old, new) ==
    LET occ == Occurrences(before, old)
        d == Len(new) - Len(old)
        Shift(i) == Cardinality({ p \in occ : p < i }) * d
        Covered(i) == \E p \in occ : p <= i /\ i < p + Len(old)
    IN  /\ Len(after) = Len(before) + Cardinality(occ) * d
        /\ \A p \in occ :
              SubSeq(after, p + Shift(p), p + Shift(p) + Len(new) - 1) = new
        /\ \A i \in 1..Len(before) :
              ~Covered(i) => after[i + Shift(i)] = before[i]

NoRecognizedToken(s) == \A v \in VarNames : Occurrences(s, Placeholder(v)) = {}

----------------------------------------------------------------------------
(* C1 *)

\* C1: when the loop has finished, content is what the four replacements give
\* on the text read from the template in every order, not only the declared one.
C1_OrderIndependent ==
    LoopDone => \A o \in Orders : InOrder(TemplateText, vars_to_sub, o) = content

----------------------------------------------------------------------------
(* C2 *)

\* C2: when the loop has finished, content is the text read from the template
\* with the placeholders found in that text replaced in one simultaneous pass:
\* a placeholder that a substituted value brought in or completed stays as it is.
C2_NoReexpansion ==
    LoopDone => content = Simultaneous(TemplateText, vars_to_sub)

----------------------------------------------------------------------------
(* C3 *)

----------------------------------------------------------------------------
(* C4 *)

\* C4: when the loop has finished on a text whose only recognized placeholder
\* is one occurrence of ${V}, content is the text before the occurrence, the
\* value of V, and the text after the occurrence.
C4_SingleOccurrence ==
    LoopDone =>
        \A v \in VarNames :
            LET occ == Occurrences(TemplateText, Placeholder(v))
            IN  ( /\ Cardinality(occ) = 1
                  /\ \A w \in VarNames \ {v} :
                        Occurrences(TemplateText, Placeholder(w)) = {} )
                => LET p == CHOOSE q \in occ : TRUE
                   IN  content =
                         SubSeq(TemplateText, 1, p - 1) \o vars_to_sub[v]
                           \o SubSeq(TemplateText, p + Len(Placeholder(v)),
                                     Len(TemplateText))

----------------------------------------------------------------------------
(* C5 *)

\* C5: the iteration of the loop for V replaces every occurrence of ${V} in
\* the text by the one value vars_to_sub holds for V and keeps every other
\* character; the occurrences the template had are all among them.
C5_EveryOccurrenceReplaced ==
    [][ pc = "loop" =>
          LET v == VarOrder[idx]
          IN  /\ ReplacedAll(content, content', Placeholder(v), vars_to_sub[v])
              /\ Count(content, Placeholder(v)) >= Count(TemplateText, Placeholder(v))
      ]_vars

\* a successful run on a template that is ${V}${V}, for a V that is set: the
\* output is the value of V twice
C5_Witness ==
    /\ pc = "done"
    /\ \E v \in DOMAIN environ :
          /\ TemplateData = Placeholder(v) \o Placeholder(v)
          /\ environ[v] # <<>>
          /\ fs[output_file] = environ[v] \o environ[v]

----------------------------------------------------------------------------
(* C6 *)

\* an argument or a file is what made the run fail
FailureCause ==
    \/ Len(argv) < 2
    \/ ~(template_file \in DOMAIN fs_before /\ CanRead(template_file))
    \/ ~CanWrite(output_file)
    \/ ~Fits(WriteText(content))

Terminated == pc \in {"done", "failed"}

\* C6: a variable that is not set resolves to the empty string and is no
\* reason to fail (the only exceptions are IndexError and OSError, and a run
\* that fails has an argument or a file to blame), and its iteration of the
\* loop deletes every occurrence of its placeholder.
C6_UnsetIsEmpty ==
    /\ [] /\ \A v \in VarNames \ DOMAIN environ : vars_to_sub[v] = <<>>
          /\ (HasRead \/ pc = "read") =>
                \A v \in DOMAIN environ : vars_to_sub[v] = environ[v]
          /\ error \in {"", "IndexError", "OSError"}
          /\ pc = "failed" => FailureCause
    /\ [][ (pc = "loop" /\ VarOrder[idx] \notin DOMAIN environ) =>
             LET old == Placeholder(VarOrder[idx])
             IN  /\ ReplacedAll(content, content', old, <<>>)
                 /\ Len(content') = Len(content) - Count(content, old) * Len(old)
         ]_vars

\* the example of the specification: KRATOS_CIPHER_SECRET is not set, the run
\* succeeds and the output is "DSN=postgres://x\nSECRET=\n"
C6_Witness ==
    /\ pc = "done"
    /\ "KRATOS_CIPHER_SECRET" \notin DOMAIN environ
    /\ TemplateData = ExampleTemplate
    /\ fs[output_file] =
          <<"D","S","N","=">> \o ExampleEnviron["KRATOS_DSN"]
             \o <<"\n","S","E","C","R","E","T","=","\n">>

----------------------------------------------------------------------------
(* C7 *)

\* C7: a placeholder whose name is not in the table is never touched: the
\* text holds as many of them after every replacement as the template text
\* did, the output file as many as the template file, and a run that fails
\* has an argument or a file to blame.
C7_UnknownLeftVerbatim ==
    /\ HasRead =>
          \A u \in UnknownTokens : Count(content, u) >= Count(TemplateText, u)
    /\ pc = "done" =>
          \A u \in UnknownTokens : Count(fs[output_file], u) >= Count(TemplateData, u)
    /\ pc = "failed" => FailureCause

\* a successful run on a template that holds ${KRATOS_DSN_URL} and
\* ${KRATOS_DSN}, with KRATOS_DSN set: the former is in the output, the
\* latter is not
C7_Witness ==
    /\ pc = "done"
    /\ "KRATOS_DSN" \in DOMAIN environ
    /\ Count(TemplateData, NearMiss) = 1
    /\ Count(TemplateData, Placeholder("KRATOS_DSN")) = 1
    /\ Count(fs[output_file], NearMiss) = 1
    /\ Count(fs[output_file], Placeholder("KRATOS_DSN")) = 0

----------------------------------------------------------------------------
(* C8 *)

\* how far the run is: the statements of the script in program order
Position ==
    CASE pc = "argv1" -> 1
      [] pc = "argv2" -> 2
      [] pc = "environ" -> 3
      [] pc = "read" -> 4
      [] pc = "loop" -> 4 + idx
      [] pc = "open" -> 9
      [] pc = "write" -> 10
      [] pc = "print" -> 11
      [] pc \in {"done", "failed"} -> 12

\* C8: every run ends, in success or in failure and never both: it is always
\* at a statement of the script or at one of the two ends, and every step
\* takes it further down the script.  Success: no exception, the output file
\* holds the whole substituted text and the confirmation line has been
\* printed, once.  Failure: an IndexError or an OSError with an argument or a
\* file to blame, and nothing printed.  The confirmation line is on stdout
\* only when the write has completed (it is printed by the step that follows
\* the write), and no run succeeds when an argument or a file stands in the way.
C8_Outcomes ==
    /\ [] /\ pc \in {"argv1", "argv2", "environ", "read", "loop", "open", "write",
                     "print", "done", "failed"}
          /\ pc = "done" =>
                /\ error = ""
                /\ ~FailureCause
                /\ content = InOrder(TemplateText, vars_to_sub, VarOrder)
                /\ fs[output_file] = WriteText(content)
                /\ stdout = <<ConfirmationLine>>
          /\ pc = "failed" =>
                /\ error \in {"IndexError", "OSError"}
                /\ FailureCause
                /\ stdout = <<>>
          /\ stdout # <<>> => pc = "done"
          /\ ~Terminated => error = ""
    /\ [][ /\ ~Terminated
           /\ Position' > Position
           /\ stdout' # stdout =>
                 (pc = "print" /\ pc' = "done" /\ fs[output_file] = WriteText(content))
           /\ pc' = "done" => stdout' # stdout
         ]_vars

\* a run that succeeded and wrote a text that is not empty
C8_Witness ==
    /\ pc = "done"
    /\ stdout = <<ConfirmationLine>>
    /\ fs[output_file] # <<>>
    /\ output_file \in DOMAIN fs_before

----------------------------------------------------------------------------
(* C9 *)

\* C9: no file changes before the output is opened for writing, and a run
\* that failed for want of an argument or of a readable template leaves the
\* file system as it found it.
C9_InputFailureLeavesOutput ==
    /\ pc \in {"argv1", "argv2", "environ", "read", "loop", "open"} => fs = fs_before
    /\ ( /\ pc = "failed"
         /\ \/ Len(argv) < 2
            \/ ~(argv[1] \in DOMAIN fs_before /\ CanRead(argv[1])) )
        => fs = fs_before

\* a run that failed on a missing template while the output file existed and
\* could have been written
C9_Witness ==
    /\ pc = "failed"
    /\ Len(argv) >= 2
    /\ argv[1] \notin DOMAIN fs_before
    /\ argv[2] \in DOMAIN fs_before
    /\ CanWrite(argv[2])
    /\ fs[argv[2]] = OldOutput

----------------------------------------------------------------------------
(* C10 *)

\* C10: at every moment of a run every path other than the second argument
\* holds what it held when the run started (and exists if and only if it did);
\* after a successful run whose two arguments are the same path, that file
\* holds the substitution of what it held when the run started.
C10_OnlyOutputChanges ==
    /\ \A p \in Paths :
          (Len(argv) < 2 \/ p # argv[2]) =>
              /\ p \in DOMAIN fs <=> p \in DOMAIN fs_before
              /\ p \in DOMAIN fs => fs[p] = fs_before[p]
    /\ (pc = "done" /\ argv[1] = argv[2]) =>
          fs[argv[2]] =
              WriteText(InOrder(ReadText(fs_before[argv[1]]),
                                [v \in VarNames |-> EnvironGet(v, <<>>)], VarOrder))

\* the example of the specification run in place: the template file ends up
\* holding "DSN=postgres://x\nSECRET=\n"
C10_Witness ==
    /\ pc = "done"
    /\ argv[1] = argv[2]
    /\ fs_before[argv[1]] = ExampleTemplate
    /\ fs[argv[1]] =
          <<"D","S","N","=","p","o","s","t","g","r","e","s",":","/","/","x","\n",
            "S","E","C","R","E","T","=","\n">>

=============================================================================
